---- MODULE Spec2Model ----
(***************************************************************************)
(* btrfs.c: the command dispatcher of btrfs-progs.                         *)
(*                                                                         *)
(* C strings are sequences of one-character strings, so that prefix tests, *)
(* option abbreviation and case folding are computed character by          *)
(* character.  A NULL pointer is the value NULL.                           *)
(***************************************************************************)
EXTENDS Integers, Sequences, FiniteSets, TLC

NULL == -1

(***************************************************************************)
(* Bounds of the model.                                                    *)
(***************************************************************************)
\* Token matcher: longest command name / token, largest command group.
MaxNameLen == 2
MaxCmds == 3
\* Dispatcher: number of leading option words, number of words that follow.
MaxGlobals == 3
MaxCmdArgs == 4

(***************************************************************************)
(* String helpers (libc).                                                  *)
(***************************************************************************)
\* strncmp(str, prefix, strlen(prefix)) == 0
StartsWith(str, prefix) ==
    /\ Len(prefix) <= Len(str)
    /\ \A k \in 1..Len(prefix) : str[k] = prefix[k]

\* Sequences over S of length lo..hi.
SeqsOf(S, lo, hi) == UNION {[1..n -> S] : n \in lo..hi}

\* Is the sequence free of duplicates?
Distinct(s) == \A i, j \in 1..Len(s) : i # j => s[i] # s[j]

(***************************************************************************)
(* skip_prefix: the pointer str + strlen(prefix), as an offset into str,   *)
(* or NULL when str does not start with prefix.                            *)
(***************************************************************************)
skip_prefix(str, prefix) ==
    IF StartsWith(str, prefix) THEN Len(prefix) ELSE NULL

\* *p for a pointer p = str + off: the character there, NUL at the end.
NUL == "\\0"
Deref(str, off) == IF off < Len(str) THEN str[off + 1] ELSE NUL

(***************************************************************************)
(* prefixcmp(str, prefix): 0 when str starts with prefix, nonzero          *)
(* otherwise (the sign of the difference is not used by any caller).       *)
(***************************************************************************)
prefixcmp(str, prefix) == IF StartsWith(str, prefix) THEN 0 ELSE 1

(***************************************************************************)
(* parse_one_token.  tokens is the list of cmd->token of grp->commands, in *)
(* declaration order; the result is the return value and the index of the  *)
(* command stored in *cmd_ret (0 when *cmd_ret is not written).            *)
(* The loop state is i, abbrev_cmd and ambiguous_cmd (indices, 0 = NULL).  *)
(***************************************************************************)
RECURSIVE parse_loop(_, _, _, _, _)
parse_loop(arg, tokens, i, abbrev_cmd, ambiguous_cmd) ==
    IF i > Len(tokens)
    THEN IF ambiguous_cmd # 0 THEN [ret |-> -2, cmd |-> 0]
         ELSE IF abbrev_cmd # 0 THEN [ret |-> 0, cmd |-> abbrev_cmd]
         ELSE [ret |-> -1, cmd |-> 0]
    ELSE LET rest == skip_prefix(arg, tokens[i]) IN
         IF rest = NULL
         THEN IF prefixcmp(tokens[i], arg) = 0
              THEN parse_loop(arg, tokens, i + 1, i,
                              IF abbrev_cmd # 0 THEN abbrev_cmd ELSE ambiguous_cmd)
              ELSE parse_loop(arg, tokens, i + 1, abbrev_cmd, ambiguous_cmd)
         ELSE IF Deref(arg, rest) # NUL
              THEN parse_loop(arg, tokens, i + 1, abbrev_cmd, ambiguous_cmd)
              ELSE [ret |-> 0, cmd |-> i]

\* Plausible bug: the exact match is deferred until after the scan, so the
\* ambiguity marker is consulted first.
RECURSIVE parse_loop_deferred(_, _, _, _, _, _)
parse_loop_deferred(arg, tokens, i, abbrev_cmd, ambiguous_cmd, exact) ==
    IF i > Len(tokens)
    THEN IF ambiguous_cmd # 0 THEN [ret |-> -2, cmd |-> 0]
         ELSE IF exact # 0 THEN [ret |-> 0, cmd |-> exact]
         ELSE IF abbrev_cmd # 0 THEN [ret |-> 0, cmd |-> abbrev_cmd]
         ELSE [ret |-> -1, cmd |-> 0]
    ELSE LET rest == skip_prefix(arg, tokens[i]) IN
         IF rest = NULL
         THEN IF prefixcmp(tokens[i], arg) = 0
              THEN parse_loop_deferred(arg, tokens, i + 1, i,
                       IF abbrev_cmd # 0 THEN abbrev_cmd ELSE ambiguous_cmd, exact)
              ELSE parse_loop_deferred(arg, tokens, i + 1, abbrev_cmd,
                                       ambiguous_cmd, exact)
         ELSE IF Deref(arg, rest) # NUL
              THEN parse_loop_deferred(arg, tokens, i + 1, abbrev_cmd,
                                       ambiguous_cmd, exact)
              ELSE parse_loop_deferred(arg, tokens, i + 1, abbrev_cmd,
                                       ambiguous_cmd, i)

parse_one_token_deferred_exact(arg, tokens) ==
    parse_loop_deferred(arg, tokens, 1, 0, 0, 0)

\* Plausible bug: the ambiguity marker is never recorded, the last
\* abbreviation candidate wins.
RECURSIVE parse_loop_last(_, _, _, _)
parse_loop_last(arg, tokens, i, abbrev_cmd) ==
    IF i > Len(tokens)
    THEN IF abbrev_cmd # 0 THEN [ret |-> 0, cmd |-> abbrev_cmd]
         ELSE [ret |-> -1, cmd |-> 0]
    ELSE LET rest == skip_prefix(arg, tokens[i]) IN
         IF rest = NULL
         THEN parse_loop_last(arg, tokens, i + 1,
                  IF prefixcmp(tokens[i], arg) = 0 THEN i ELSE abbrev_cmd)
         ELSE IF Deref(arg, rest) # NUL
              THEN parse_loop_last(arg, tokens, i + 1, abbrev_cmd)
              ELSE [ret |-> 0, cmd |-> i]

parse_one_token_no_ambiguity(arg, tokens) == parse_loop_last(arg, tokens, 1, 0)

parse_one_token(arg, tokens) == parse_loop(arg, tokens, 1, 0, 0)

(***************************************************************************)
(* String literals of the program and of the command lines explored.       *)
(***************************************************************************)
s_subvolume == <<"s", "u", "b", "v", "o", "l", "u", "m", "e">>
s_filesystem == <<"f", "i", "l", "e", "s", "y", "s", "t", "e", "m">>
s_balance == <<"b", "a", "l", "a", "n", "c", "e">>
s_device == <<"d", "e", "v", "i", "c", "e">>
s_scrub == <<"s", "c", "r", "u", "b">>
s_check == <<"c", "h", "e", "c", "k">>
s_rescue == <<"r", "e", "s", "c", "u", "e">>
s_restore == <<"r", "e", "s", "t", "o", "r", "e">>
s_inspect == <<"i", "n", "s", "p", "e", "c", "t", "-", "i", "n", "t", "e", "r", "n", "a", "l">>
s_property == <<"p", "r", "o", "p", "e", "r", "t", "y">>
s_send == <<"s", "e", "n", "d">>
s_receive == <<"r", "e", "c", "e", "i", "v", "e">>
s_quota == <<"q", "u", "o", "t", "a">>
s_qgroup == <<"q", "g", "r", "o", "u", "p">>
s_replace == <<"r", "e", "p", "l", "a", "c", "e">>
s_help == <<"h", "e", "l", "p">>
s_version == <<"v", "e", "r", "s", "i", "o", "n">>
s_df == <<"d", "f">>
s_show == <<"s", "h", "o", "w">>
s_sync == <<"s", "y", "n", "c">>
s_usage == <<"u", "s", "a", "g", "e">>
s_start == <<"s", "t", "a", "r", "t">>
s_pause == <<"p", "a", "u", "s", "e">>
s_cancel == <<"c", "a", "n", "c", "e", "l">>
s_resume == <<"r", "e", "s", "u", "m", "e">>
s_status == <<"s", "t", "a", "t", "u", "s">>
s_format == <<"f", "o", "r", "m", "a", "t">>
s_full == <<"f", "u", "l", "l">>
s_text == <<"t", "e", "x", "t">>
s_json == <<"j", "s", "o", "n">>
s_btrfs == <<"b", "t", "r", "f", "s">>
s_btrfsck == <<"b", "t", "r", "f", "s", "c", "k">>
s_path_btrfsck == <<".", "/", "b", "t", "r", "f", "s", "c", "k">>
a_help == <<"-", "-", "h", "e", "l", "p">>
a_version == <<"-", "-", "v", "e", "r", "s", "i", "o", "n">>
a_full == <<"-", "-", "f", "u", "l", "l">>
a_format == <<"-", "-", "f", "o", "r", "m", "a", "t">>
a_bogus == <<"-", "-", "b", "o", "g", "u", "s">>
a_vers == <<"-", "-", "v", "e", "r", "s">>
a_dashdash == <<"-", "-">>
a_format_eq_json == <<"-", "-", "f", "o", "r", "m", "a", "t", "=", "j", "s", "o", "n">>
a_format_eq_TEXT == <<"-", "-", "f", "o", "r", "m", "a", "t", "=", "T", "E", "X", "T">>
a_format_eq_bad == <<"-", "-", "f", "o", "r", "m", "a", "t", "=", "b", "a", "d">>
a_Json == <<"J", "s", "o", "n">>
a_s == <<"s">>
a_h == <<"h">>
a_xy == <<"-", "x", "y">>

(***************************************************************************)
(* Output modes and the commands' capability masks (commands.h).           *)
(***************************************************************************)
CMD_OUTPUT_TEXT == 0
CMD_OUTPUT_JSON == 1
CMD_OUTPUT_MAX == 2
cmd_outputs == <<s_text, s_json>>

CMD_FORMAT_TEXT == 1
CMD_FORMAT_JSON == 2

(***************************************************************************)
(* The command tree.  A command is a record of its token, the name of its  *)
(* nested group (NoGroup for a leaf) and its cmd_format_flags.             *)
(***************************************************************************)
NoGroup == "none"

Leaf(token, flags) == [token |-> token, next |-> NoGroup, flags |-> flags]
Group(token, next) == [token |-> token, next |-> next, flags |-> CMD_FORMAT_TEXT]

cmd_struct_help == Leaf(s_help, CMD_FORMAT_TEXT)
cmd_struct_version == Leaf(s_version, CMD_FORMAT_TEXT)

\* The absent command: what cmd holds while nothing is resolved.
NoCmd == Leaf(<<>>, 0)

btrfs_cmd_group ==
    << Group(s_subvolume, "subvolume"),
       Group(s_filesystem, "filesystem"),
       Group(s_balance, "balance"),
       Group(s_device, "device"),
       Group(s_scrub, "scrub"),
       Leaf(s_check, CMD_FORMAT_TEXT),
       Group(s_rescue, "rescue"),
       Leaf(s_restore, CMD_FORMAT_TEXT),
       Group(s_inspect, "inspect"),
       Group(s_property, "property"),
       Leaf(s_send, CMD_FORMAT_TEXT),
       Leaf(s_receive, CMD_FORMAT_TEXT),
       Group(s_quota, "quota"),
       Group(s_qgroup, "qgroup"),
       Group(s_replace, "replace"),
       cmd_struct_help,
       cmd_struct_version >>

\* Nested groups: "filesystem balance" routes to the balance group, which
\* gives a three-level nesting; the other groups are kept to their status
\* or show command.
balance_cmd_group ==
    << Leaf(s_start, CMD_FORMAT_TEXT),
       Leaf(s_pause, CMD_FORMAT_TEXT),
       Leaf(s_cancel, CMD_FORMAT_TEXT),
       Leaf(s_resume, CMD_FORMAT_TEXT),
       Leaf(s_status, CMD_FORMAT_TEXT + CMD_FORMAT_JSON) >>

filesystem_cmd_group ==
    << Leaf(s_df, CMD_FORMAT_TEXT),
       Leaf(s_show, CMD_FORMAT_TEXT),
       Leaf(s_sync, CMD_FORMAT_TEXT),
       Group(s_balance, "balance"),
       Leaf(s_usage, CMD_FORMAT_TEXT + CMD_FORMAT_JSON) >>

Groups(g) ==
    CASE g = "btrfs" -> btrfs_cmd_group
      [] g = "filesystem" -> filesystem_cmd_group
      [] g = "balance" -> balance_cmd_group
      [] g \in {"scrub", "replace"} ->
             << Leaf(s_start, CMD_FORMAT_TEXT), Leaf(s_cancel, CMD_FORMAT_TEXT),
                Leaf(s_status, CMD_FORMAT_TEXT) >>
      [] OTHER -> << Leaf(s_show, CMD_FORMAT_TEXT) >>

\* The cmd->token of the commands of a group, in declaration order.
Tokens(grp) == [i \in 1..Len(grp) |-> grp[i].token]

(***************************************************************************)
(* Case folding (strcasecmp).                                              *)
(***************************************************************************)
UpperCase == <<"A", "B", "C", "D", "E", "F", "G", "H", "I", "J", "K", "L", "M",
               "N", "O", "P", "Q", "R", "S", "T", "U", "V", "W", "X", "Y", "Z">>
LowerCase == <<"a", "b", "c", "d", "e", "f", "g", "h", "i", "j", "k", "l", "m",
               "n", "o", "p", "q", "r", "s", "t", "u", "v", "w", "x", "y", "z">>

tolower(c) ==
    IF \E k \in 1..Len(UpperCase) : UpperCase[k] = c
    THEN LowerCase[CHOOSE k \in 1..Len(UpperCase) : UpperCase[k] = c]
    ELSE c

\* strcasecmp(a, b) == 0
strcasecmp0(a, b) ==
    /\ Len(a) = Len(b)
    /\ \A k \in 1..Len(a) : tolower(a[k]) = tolower(b[k])

(***************************************************************************)
(* cmd_provides_output_format: (1 << output_mode) & cmd_format_flags.      *)
(***************************************************************************)
RECURSIVE Pow2(_)
Pow2(n) == IF n = 0 THEN 1 ELSE 2 * Pow2(n - 1)

BitSet(mask, bit) == (mask \div Pow2(bit)) % 2 = 1

cmd_provides_output_format(cmd, output_mode) ==
    IF output_mode = 0 THEN TRUE ELSE BitSet(cmd.flags, output_mode)

(***************************************************************************)
(* handle_output_format: the first i with strcasecmp(format,               *)
(* cmd_outputs[i]) == 0 becomes the output mode; when there is none the    *)
(* mode is reset to text and the process exits with status 1.              *)
(***************************************************************************)
FormatIndex(format) ==
    IF \E i \in 0..(CMD_OUTPUT_MAX - 1) : strcasecmp0(format, cmd_outputs[i + 1])
    THEN CHOOSE i \in 0..(CMD_OUTPUT_MAX - 1) :
            /\ strcasecmp0(format, cmd_outputs[i + 1])
            /\ \A j \in 0..(i - 1) : ~strcasecmp0(format, cmd_outputs[j + 1])
    ELSE CMD_OUTPUT_MAX

\* Plausible bug: strcmp in place of strcasecmp.
handle_output_format_case_sensitive(format) ==
    IF \E i \in 0..(CMD_OUTPUT_MAX - 1) : format = cmd_outputs[i + 1]
    THEN [output_mode |-> (CHOOSE i \in 0..(CMD_OUTPUT_MAX - 1) :
                              format = cmd_outputs[i + 1]),
          exit |-> FALSE]
    ELSE [output_mode |-> CMD_OUTPUT_TEXT, exit |-> TRUE]

handle_output_format(format) ==
    LET i == FormatIndex(format) IN
    IF i = CMD_OUTPUT_MAX
    THEN [output_mode |-> CMD_OUTPUT_TEXT, exit |-> TRUE]
    ELSE [output_mode |-> i, exit |-> FALSE]

(***************************************************************************)
(* getopt_long(argc, argv, "+", long_options, NULL), as glibc does it.     *)
(* av is the argument vector (av[1] is argv[0]), optind the C index of the *)
(* next word.  The result is the return value c, the new optind and        *)
(* optarg.  "+" stops the scan at the first word that is not an option;    *)
(* there are no short options, so every character of a "-xy" word is       *)
(* unknown: the first is reported with optind still on the word when more  *)
(* characters follow it, and past the word when it is the only one.  A     *)
(* long option may be abbreviated to a prefix that fits one name only, and *)
(* may carry its argument after "=".                                       *)
(***************************************************************************)
OPT_HELP == 256
OPT_VERSION == 257
OPT_FULL == 258
OPT_FORMAT == 259
OPT_UNKNOWN == 63
OPT_END == -1

long_options ==
    << [name |-> s_help, has_arg |-> FALSE, val |-> OPT_HELP],
       [name |-> s_version, has_arg |-> FALSE, val |-> OPT_VERSION],
       [name |-> s_format, has_arg |-> TRUE, val |-> OPT_FORMAT],
       [name |-> s_full, has_arg |-> FALSE, val |-> OPT_FULL] >>

\* Index of the first "=" of a word, Len + 1 when there is none.
EqPos(w) ==
    IF \E k \in 1..Len(w) : w[k] = "="
    THEN CHOOSE k \in 1..Len(w) : w[k] = "=" /\ \A j \in 1..(k - 1) : w[j] # "="
    ELSE Len(w) + 1

\* Is the word an option word ("-" followed by something)?
IsOption(w) == Len(w) >= 2 /\ w[1] = "-"

\* The long option a name selects: an exact name, else the only name it
\* abbreviates; 0 when there is none or more than one.
LongMatch(name) ==
    LET exact == {k \in 1..Len(long_options) : long_options[k].name = name}
        abbr == {k \in 1..Len(long_options) : StartsWith(long_options[k].name, name)}
    IN IF exact # {} THEN CHOOSE k \in exact : TRUE
       ELSE IF Cardinality(abbr) = 1 THEN CHOOSE k \in abbr : TRUE
       ELSE 0

\* Plausible bug: without "+" the scan does not stop at a word that is not
\* an option but passes over it to the next option word.
StopsAt_permute(av, optind) ==
    \A k \in (optind + 1)..Len(av) : ~IsOption(av[k])

\* The scan ends at optind: no word left, or a word that is not an option.
StopsAt(av, optind) ==
    optind >= Len(av) \/ ~IsOption(av[optind + 1])

\* With the scan not stopped, the C index of the next option word.
NextOption(av, optind) ==
    IF optind < Len(av) /\ IsOption(av[optind + 1]) THEN optind
    ELSE CHOOSE k \in optind..(Len(av) - 1) :
            /\ IsOption(av[k + 1])
            /\ \A j \in optind..(k - 1) : ~IsOption(av[j + 1])

getopt_long(av, optind0) ==
    IF StopsAt(av, optind0)
    THEN [c |-> OPT_END, optind |-> optind0, optarg |-> <<>>]
    ELSE
    LET optind == NextOption(av, optind0)
        w == av[optind + 1]
    IN
    IF w = a_dashdash
    THEN [c |-> OPT_END, optind |-> optind + 1, optarg |-> <<>>]
    ELSE IF w[2] # "-"
    THEN [c |-> OPT_UNKNOWN,
          optind |-> IF Len(w) > 2 THEN optind ELSE optind + 1,
          optarg |-> <<>>]
    ELSE
    LET eq == EqPos(w)
        name == SubSeq(w, 3, eq - 1)
        m == LongMatch(name)
    IN
    IF m = 0
    THEN [c |-> OPT_UNKNOWN, optind |-> optind + 1, optarg |-> <<>>]
    ELSE IF eq <= Len(w)
    THEN IF long_options[m].has_arg
         THEN [c |-> long_options[m].val, optind |-> optind + 1,
               optarg |-> SubSeq(w, eq + 1, Len(w))]
         ELSE [c |-> OPT_UNKNOWN, optind |-> optind + 1, optarg |-> <<>>]
    ELSE IF long_options[m].has_arg
    THEN IF optind + 1 < Len(av)
         THEN [c |-> long_options[m].val, optind |-> optind + 2,
               optarg |-> av[optind + 2]]
         ELSE [c |-> OPT_UNKNOWN, optind |-> optind + 1, optarg |-> <<>>]
    ELSE [c |-> long_options[m].val, optind |-> optind + 1, optarg |-> <<>>]

(***************************************************************************)
(* handle_global_options: the getopt loop.  The result is the shift (the   *)
(* optind where the scan stopped), the output mode left in the context,    *)
(* and, when the loop ends in exit(), the exit status and the diagnostics. *)
(* argv always holds the program name, so argc == 0 (line 255) does not    *)
(* arise.  optind is reset to 1 on return: each call starts at 1.          *)
(***************************************************************************)
RECURSIVE global_options_loop(_, _, _)
global_options_loop(av, optind, mode) ==
    LET g == getopt_long(av, optind) IN
    IF g.c < 0
    THEN [exit |-> FALSE, status |-> 0, shift |-> g.optind,
          output_mode |-> mode, out |-> {}]
    ELSE IF g.c \in {OPT_HELP, OPT_VERSION, OPT_FULL}
    THEN global_options_loop(av, g.optind, mode)
    ELSE IF g.c = OPT_FORMAT
    THEN LET h == handle_output_format(g.optarg) IN
         IF h.exit
         THEN [exit |-> TRUE, status |-> 1, shift |-> g.optind,
               output_mode |-> h.output_mode,
               out |-> {"invalid_format", "usage", "formats"}]
         ELSE global_options_loop(av, g.optind, h.output_mode)
    ELSE [exit |-> TRUE, status |-> 129, shift |-> g.optind,
          output_mode |-> mode, out |-> {"unknown_option"}]

\* Plausible bug: an option getopt does not know is skipped (break) instead
\* of ending the process.
RECURSIVE global_options_loop_lenient(_, _, _)
global_options_loop_lenient(av, optind, mode) ==
    LET g == getopt_long(av, optind) IN
    IF g.c < 0
    THEN [exit |-> FALSE, status |-> 0, shift |-> g.optind,
          output_mode |-> mode, out |-> {}]
    ELSE IF g.c = OPT_FORMAT
    THEN LET h == handle_output_format(g.optarg) IN
         IF h.exit
         THEN [exit |-> TRUE, status |-> 1, shift |-> g.optind,
               output_mode |-> h.output_mode,
               out |-> {"invalid_format", "usage", "formats"}]
         ELSE global_options_loop_lenient(av, g.optind, h.output_mode)
    ELSE global_options_loop_lenient(av, g.optind, mode)

handle_global_options_lenient(av, mode) == global_options_loop_lenient(av, 1, mode)

handle_global_options(av, mode) == global_options_loop(av, 1, mode)

(***************************************************************************)
(* handle_help_options_next_level.  av is the caller's argv (av[1] is its  *)
(* argv[0], the token just resolved to cmd).  The result tells whether the *)
(* function ends the process, with which status and which output.          *)
(***************************************************************************)
handle_help_options_next_level(cmd, output_mode, argc, av) ==
    IF argc < 2
    THEN [exit |-> FALSE, status |-> 0, out |-> {}]
    ELSE
    LET err == IF cmd.next = NoGroup /\ ~cmd_provides_output_format(cmd, output_mode)
               THEN 1 ELSE 0
    IN
    IF av[2] = a_help \/ err # 0
    THEN [exit |-> TRUE, status |-> err,
          out |-> (IF err # 0 THEN {"unsupported_format"} ELSE {}) \cup
                  (IF cmd.next # NoGroup THEN {"group_help"} ELSE {"usage_command"})]
    ELSE [exit |-> FALSE, status |-> 0, out |-> {}]

(***************************************************************************)
(* main: the basename of argv[0] (strrchr(argv[0], '/')).                  *)
(***************************************************************************)
Basename(path) ==
    IF \E k \in 1..Len(path) : path[k] = "/"
    THEN LET last == CHOOSE k \in 1..Len(path) :
                        path[k] = "/" /\ \A j \in (k + 1)..Len(path) : path[j] # "/"
         IN SubSeq(path, last + 1, Len(path))
    ELSE path

(***************************************************************************)
(* State.                                                                  *)
(*   argv, base, argc  the argument vector, the number of words main and   *)
(*                     handle_command_group have shifted away (the C argv  *)
(*                     pointer is &argv[base]) and the C argc              *)
(*   bname             main's bname                                        *)
(*   output_mode       cmdcxt.output_mode                                  *)
(*   shift             main's shift, as returned by handle_global_options  *)
(*   grp, cmd          the group being resolved and the command resolved   *)
(*   ret               the status the leaf handler returned                *)
(*   pc, status        the position in main; the exit status once exited   *)
(*   init_calls, close_calls                                               *)
(*                     calls of btrfs_config_init, btrfs_close_all_devices *)
(*   resolved          the C indices of the words given to                 *)
(*                     parse_command_token, in order                       *)
(*   execs             the calls of cmd_execute, in order                  *)
(*   out               the kinds of output produced                        *)
(*   t_pc, t_arg, t_tokens, t_res                                          *)
(*                     one call of parse_one_token on an arbitrary group   *)
(***************************************************************************)
VARIABLES argv, base, argc, bname, output_mode, shift, grp, cmd, ret, pc, status,
          init_calls, close_calls, resolved, execs, out,
          t_pc, t_arg, t_tokens, t_res

mainVars == <<argv, base, argc, bname, output_mode, shift, grp, cmd, ret, pc,
              status, init_calls, close_calls, resolved, execs, out>>
tokenVars == <<t_pc, t_arg, t_tokens, t_res>>
vars == <<mainVars, tokenVars>>

(***************************************************************************)
(* The command lines explored.                                             *)
(***************************************************************************)
ProgNames == {s_btrfs, s_path_btrfsck}

\* Words tried before the first command word, and what may follow them.
GlobalPool == {a_help, a_version, a_full, a_bogus, a_format, a_Json,
               a_format_eq_TEXT, a_format_eq_bad, a_vers, a_dashdash}
GlobalTails == {<<>>, <<s_check>>, <<a_s>>}
\* The commands whose handlers btrfs.c defines, by name and by prefix, and a
\* word of unknown short options, after fewer leading words.
HandlerTails == {<<s_help>>, <<a_h>>, <<s_version>>, <<s_version, a_s>>,
                 <<a_xy>>, <<a_xy, s_check>>}

\* Words tried from the first command word on: after no option under every
\* program name, and after a valid --format.
CmdPool == {s_filesystem, s_balance, s_status, s_check, a_help, a_version}

\* Three levels, filesystem balance <leaf>: a leaf of text only and the leaf
\* of text and json, in either mode, and the words that follow the leaf.
DeepFormats == {<<>>, <<a_format_eq_json>>}
DeepLeaves == {s_start, s_status}
DeepPool == {a_help, a_version, a_format_eq_json, s_check}

\* Words that follow the program name under the btrfsck alias, where they
\* are arguments of check whatever they look like.
AliasNames == {s_btrfsck, s_path_btrfsck}
AliasPool == {a_format_eq_json, a_format, a_Json, a_version, a_bogus}

ArgVectors ==
    {<<s_btrfs>> \o g \o t : g \in SeqsOf(GlobalPool, 0, MaxGlobals), t \in GlobalTails}
    \cup
    {<<s_btrfs>> \o g \o t : g \in SeqsOf(GlobalPool, 0, MaxGlobals - 2), t \in HandlerTails}
    \cup
    {<<p>> \o c : p \in ProgNames, c \in SeqsOf(CmdPool, 0, MaxCmdArgs)}
    \cup
    {<<s_btrfsck>> \o t : t \in GlobalTails}
    \cup
    {<<s_btrfs, a_format_eq_json>> \o c : c \in SeqsOf(CmdPool, 0, MaxCmdArgs)}
    \cup
    {<<s_btrfs>> \o f \o <<s_filesystem, s_balance, l>> \o r :
        f \in DeepFormats, l \in DeepLeaves, r \in SeqsOf(DeepPool, 0, MaxCmdArgs - 2)}
    \cup
    {<<p>> \o g \o t :
        p \in AliasNames, g \in SeqsOf(AliasPool, 1, MaxGlobals - 1), t \in GlobalTails}

\* Statuses an opaque leaf handler may return.
LeafStatus == {0, 1}

\* The C expression argv[k].
Arg(k) == argv[base + k + 1]

\* The C argv as the callee sees it: the words from &argv[base] on.
View(av, b) == SubSeq(av, b + 1, Len(av))

TokenInit ==
    /\ t_pc = "idle"
    /\ t_arg = <<>>
    /\ t_tokens = <<>>
    /\ t_res = [ret |-> 0, cmd |-> 0]

MainInit ==
    /\ argv \in ArgVectors
    /\ base = 0
    /\ argc = Len(argv)
    /\ bname = <<>>
    /\ output_mode = CMD_OUTPUT_TEXT
    /\ shift = 0
    /\ grp = "btrfs"
    /\ cmd = NoCmd
    /\ ret = 0
    /\ pc = "start"
    /\ status = 0
    /\ init_calls = 0
    /\ close_calls = 0
    /\ resolved = <<>>
    /\ execs = <<>>
    /\ out = {}

Init == MainInit /\ TokenInit

\* exit(code), with the output produced on the way.
Exit(code, output) ==
    /\ pc' = "exited"
    /\ status' = code
    /\ out' = out \cup output

\* The record of one cmd_execute(c, cmdcxt, n, av) made by function by.
Exec(c, n, av, by) ==
    [token |-> c.token, leaf |-> c.next = NoGroup, flags |-> c.flags,
     argc |-> n, argv |-> av, output_mode |-> output_mode, by |-> by]

(***************************************************************************)
(* main, lines 346-354: btrfs_config_init(), bname, the btrfsck alias.     *)
(***************************************************************************)
MainStart ==
    /\ pc = "start"
    /\ init_calls' = init_calls + 1
    /\ bname' = Basename(Arg(0))
    /\ IF bname' = s_btrfsck
       THEN /\ argv' = [argv EXCEPT ![base + 1] = s_check]
            /\ pc' = "parse"
       ELSE /\ argv' = argv
            /\ pc' = "globals"
    /\ UNCHANGED <<base, argc, output_mode, shift, grp, cmd, ret, status,
                   close_calls, resolved, execs, out, tokenVars>>

(***************************************************************************)
(* main, line 358: shift = handle_global_options(&cmdcxt, argc, argv).     *)
(***************************************************************************)
HandleGlobalOptions ==
    /\ pc = "globals"
    /\ LET r == handle_global_options(argv, output_mode) IN
       /\ output_mode' = r.output_mode
       /\ IF r.exit
          THEN Exit(r.status, r.out) /\ shift' = shift
          ELSE /\ shift' = r.shift
               /\ pc' = "special"
               /\ UNCHANGED <<status, out>>
    /\ UNCHANGED <<argv, base, argc, bname, grp, cmd, ret, init_calls,
                   close_calls, resolved, execs, tokenVars>>

(***************************************************************************)
(* handle_special_globals.                                                 *)
(***************************************************************************)
\* Plausible bug: --version is looked for before --help.
HandleSpecialGlobals_version_first ==
    /\ pc = "special"
    /\ LET has_help == \E i \in 0..(shift - 1) : Arg(i) = a_help
           has_full == \E i \in 0..(shift - 1) : Arg(i) = a_full
           has_version == \E i \in 0..(shift - 1) : Arg(i) = a_version
       IN
       IF has_version
       THEN /\ execs' = Append(execs, Exec(cmd_struct_version, argc, View(argv, base),
                                        "handle_special_globals"))
            /\ Exit(0, {"version"})
       ELSE IF has_help
       THEN /\ execs' = IF has_full THEN execs
                        ELSE Append(execs, Exec(cmd_struct_help, argc, View(argv, base),
                                                "handle_special_globals"))
            /\ Exit(0, (IF has_full THEN {"full_tree"} ELSE {"help"}) \cup {"formats"})
       ELSE /\ pc' = "shift"
            /\ UNCHANGED <<status, out, execs>>
    /\ UNCHANGED <<argv, base, argc, bname, output_mode, shift, grp, cmd, ret,
                   init_calls, close_calls, resolved, tokenVars>>

HandleSpecialGlobals ==
    /\ pc = "special"
    /\ LET has_help == \E i \in 0..(shift - 1) : Arg(i) = a_help
           has_full == \E i \in 0..(shift - 1) : Arg(i) = a_full
           has_version == \E i \in 0..(shift - 1) : Arg(i) = a_version
       IN
       IF has_help
       THEN /\ execs' = IF has_full THEN execs
                        ELSE Append(execs, Exec(cmd_struct_help, argc, View(argv, base),
                                                "handle_special_globals"))
            /\ Exit(0, (IF has_full THEN {"full_tree"} ELSE {"help"}) \cup {"formats"})
       ELSE IF has_version
       THEN /\ execs' = Append(execs, Exec(cmd_struct_version, argc, View(argv, base),
                                        "handle_special_globals"))
            /\ Exit(0, {"version"})
       ELSE /\ pc' = "shift"
            /\ UNCHANGED <<status, out, execs>>
    /\ UNCHANGED <<argv, base, argc, bname, output_mode, shift, grp, cmd, ret,
                   init_calls, close_calls, resolved, tokenVars>>

(***************************************************************************)
(* main, lines 360-367: shift the global options away; no word left is a   *)
(* usage error.                                                            *)
(***************************************************************************)
ShiftGlobals ==
    /\ pc = "shift"
    /\ base' = base + shift
    /\ argc' = argc - shift
    /\ shift' = -1
    /\ IF argc' = 0
       THEN Exit(1, {"usage_short"})
       ELSE pc' = "parse" /\ UNCHANGED <<status, out>>
    /\ UNCHANGED <<argv, bname, output_mode, grp, cmd, ret, init_calls,
                   close_calls, resolved, execs, tokenVars>>

(***************************************************************************)
(* parse_command_token: help_unknown_token and help_ambiguous_token print  *)
(* their diagnostic and exit(1).                                           *)
(***************************************************************************)
parse_command_token(arg, g) ==
    LET r == parse_one_token(arg, Tokens(Groups(g))) IN
    IF r.ret = -1 THEN [exit |-> TRUE, out |-> {"unknown_token"}, cmd |-> NoCmd]
    ELSE IF r.ret = -2 THEN [exit |-> TRUE, out |-> {"ambiguous_token"}, cmd |-> NoCmd]
    ELSE [exit |-> FALSE, out |-> {}, cmd |-> Groups(g)[r.cmd]]

(***************************************************************************)
(* main, line 370: cmd = parse_command_token(argv[0], &btrfs_cmd_group).   *)
(***************************************************************************)
MainParseToken ==
    /\ pc = "parse"
    /\ resolved' = Append(resolved, base)
    /\ LET p == parse_command_token(Arg(0), grp) IN
       IF p.exit
       THEN Exit(1, p.out) /\ cmd' = cmd
       ELSE /\ cmd' = p.cmd
            /\ pc' = "helpopt"
            /\ UNCHANGED <<status, out>>
    /\ UNCHANGED <<argv, base, argc, bname, output_mode, shift, grp, ret,
                   init_calls, close_calls, execs, tokenVars>>

(***************************************************************************)
(* main, line 372: handle_help_options_next_level(cmd, &cmdcxt, argc,      *)
(* argv).                                                                  *)
(***************************************************************************)
MainHelpOptions ==
    /\ pc = "helpopt"
    /\ LET h == handle_help_options_next_level(cmd, output_mode, argc,
                                               View(argv, base)) IN
       IF h.exit
       THEN Exit(h.status, h.out)
       ELSE pc' = "exec" /\ UNCHANGED <<status, out>>
    /\ UNCHANGED <<argv, base, argc, bname, output_mode, shift, grp, cmd, ret,
                   init_calls, close_calls, resolved, execs, tokenVars>>

(***************************************************************************)
(* cmd_execute(c, cmdcxt, argc, argv) after fixup_argv0(argv, c->token):   *)
(* a leaf's handler runs and returns a status; the handler of a command    *)
(* with a nested group calls handle_command_group on that group with the   *)
(* same argc and argv and returns what it returns.  cmd_help and           *)
(* cmd_version return 0.                                                   *)
(***************************************************************************)
\* What the handlers defined in btrfs.c print: cmd_help renders the help of
\* btrfs_cmd_group, cmd_version prints PACKAGE_STRING.
HandlerOutput(c) ==
    IF c = cmd_struct_help THEN {"help"}
    ELSE IF c = cmd_struct_version THEN {"version"}
    ELSE {}

Execute(c, n, b, by) ==
    /\ argv' = [argv EXCEPT ![b + 1] = c.token]
    /\ execs' = Append(execs, Exec(c, n, View(argv', b), by))
    /\ out' = out \cup HandlerOutput(c)
    /\ IF c.next = NoGroup
       THEN /\ ret' \in (IF c.token \in {s_help, s_version} THEN {0} ELSE LeafStatus)
            /\ pc' = "close"
            /\ grp' = grp
       ELSE /\ grp' = c.next
            /\ pc' = "group"
            /\ ret' = ret

(***************************************************************************)
(* main, lines 374-378.                                                    *)
(***************************************************************************)
MainExecute ==
    /\ pc = "exec"
    /\ Execute(cmd, argc, base, "main")
    /\ UNCHANGED <<base, argc, bname, output_mode, shift, cmd, status,
                   init_calls, close_calls, resolved, tokenVars>>

(***************************************************************************)
(* handle_command_group(grp, cmdcxt, argc, argv), called by the handler of *)
(* a command with a nested group.                                          *)
(***************************************************************************)
\* Plausible bug: the group's own token is not shifted away.
HandleCommandGroup_no_shift ==
    /\ pc = "group"
    /\ base' = base
    /\ argc' = argc
    /\ resolved' = Append(resolved, base')
    /\ LET p == parse_command_token(argv[base' + 1], grp)
           h == handle_help_options_next_level(p.cmd, output_mode, argc',
                                               View(argv, base'))
       IN
       IF p.exit
       THEN Exit(1, p.out) /\ UNCHANGED <<argv, cmd, grp, ret, execs>>
       ELSE /\ cmd' = p.cmd
            /\ IF h.exit
               THEN Exit(h.status, h.out) /\ UNCHANGED <<argv, grp, ret, execs>>
               ELSE /\ Execute(p.cmd, argc', base', "handle_command_group")
                    /\ status' = status
    /\ UNCHANGED <<bname, output_mode, shift, init_calls, close_calls, tokenVars>>

HandleCommandGroup ==
    /\ pc = "group"
    /\ base' = base + 1
    /\ argc' = argc - 1
    /\ IF argc' < 1
       THEN /\ Exit(1, {"usage_group"})
            /\ UNCHANGED <<argv, cmd, grp, ret, execs, resolved>>
       ELSE
       LET p == parse_command_token(argv[base' + 1], grp)
           h == handle_help_options_next_level(p.cmd, output_mode, argc',
                                               View(argv, base'))
       IN
       /\ resolved' = Append(resolved, base')
       /\ IF p.exit
          THEN Exit(1, p.out) /\ UNCHANGED <<argv, cmd, grp, ret, execs>>
          ELSE /\ cmd' = p.cmd
               /\ IF h.exit
                  THEN Exit(h.status, h.out) /\ UNCHANGED <<argv, grp, ret, execs>>
                  ELSE /\ Execute(p.cmd, argc', base', "handle_command_group")
                    /\ status' = status
    /\ UNCHANGED <<bname, output_mode, shift, init_calls, close_calls, tokenVars>>

(***************************************************************************)
(* main, line 380: btrfs_close_all_devices().                              *)
(***************************************************************************)
\* Plausible bug: main goes to exit(ret) without the teardown.
BtrfsCloseAllDevices_skipped ==
    /\ pc = "close"
    /\ pc' = "exit"
    /\ UNCHANGED <<argv, base, argc, bname, output_mode, shift, grp, cmd, ret,
                   status, init_calls, close_calls, resolved, execs, out, tokenVars>>

BtrfsCloseAllDevices ==
    /\ pc = "close"
    /\ close_calls' = close_calls + 1
    /\ pc' = "exit"
    /\ UNCHANGED <<argv, base, argc, bname, output_mode, shift, grp, cmd, ret,
                   status, init_calls, resolved, execs, out, tokenVars>>

(***************************************************************************)
(* main, line 382: exit(ret).                                              *)
(***************************************************************************)
MainExit ==
    /\ pc = "exit"
    /\ Exit(ret, {})
    /\ UNCHANGED <<argv, base, argc, bname, output_mode, shift, grp, cmd, ret,
                   init_calls, close_calls, resolved, execs, tokenVars>>

Next ==
    \/ MainStart
    \/ HandleGlobalOptions
    \/ HandleSpecialGlobals
    \/ ShiftGlobals
    \/ MainParseToken
    \/ MainHelpOptions
    \/ MainExecute
    \/ HandleCommandGroup
    \/ BtrfsCloseAllDevices
    \/ MainExit

Spec == Init /\ [][Next]_vars

(***************************************************************************)
(* The token matcher alone, on every group of at most MaxCmds commands     *)
(* with distinct non-empty names of at most MaxNameLen letters, and every  *)
(* token of at most MaxNameLen letters, the empty one included.            *)
(***************************************************************************)
Letters == {"a", "b"}
Names == SeqsOf(Letters, 1, MaxNameLen)
TokenGroups == {g \in SeqsOf(Names, 0, MaxCmds) : Distinct(g)}
TokenArgs == SeqsOf(Letters, 0, MaxNameLen)

MainIdle ==
    /\ argv = <<s_btrfs>>
    /\ base = 0
    /\ argc = 1
    /\ bname = <<>>
    /\ output_mode = CMD_OUTPUT_TEXT
    /\ shift = 0
    /\ grp = "btrfs"
    /\ cmd = NoCmd
    /\ ret = 0
    /\ pc = "idle"
    /\ status = 0
    /\ init_calls = 0
    /\ close_calls = 0
    /\ resolved = <<>>
    /\ execs = <<>>
    /\ out = {}

TokenSpecInit ==
    /\ MainIdle
    /\ t_pc = "call"
    /\ t_arg \in TokenArgs
    /\ t_tokens \in TokenGroups
    /\ t_res = [ret |-> 0, cmd |-> 0]

ParseOneToken ==
    /\ t_pc = "call"
    /\ t_res' = parse_one_token(t_arg, t_tokens)
    /\ t_pc' = "returned"
    /\ UNCHANGED <<t_arg, t_tokens, mainVars>>

TokenNext == ParseOneToken

SpecToken == TokenSpecInit /\ [][TokenNext]_vars

(***************************************************************************)
(* Properties of the token matcher (under SpecToken).                      *)
(***************************************************************************)
\* The commands of the group whose name starts with the token.
Candidates == {i \in 1..Len(t_tokens) : StartsWith(t_tokens[i], t_arg)}
ExactMatches == {i \in 1..Len(t_tokens) : t_tokens[i] = t_arg}

\* C1: a token equal to the full name of a command of the group resolves to
\* that command with return value 0, whatever the declaration order and
\* however many other names it is a strict prefix of; never -2.
C1_ExactNameWins ==
    t_pc = "returned" =>
        \A i \in ExactMatches : t_res = [ret |-> 0, cmd |-> i]

\* The exact name is declared last, after two names it abbreviates.
C1_Witness ==
    /\ t_pc = "returned"
    /\ Len(t_tokens) = 3
    /\ t_tokens[3] = t_arg
    /\ Candidates = {1, 2, 3}
    /\ t_res = [ret |-> 0, cmd |-> 3]

\* C2: for a non-empty token that equals no name, the result is decided by
\* the number of names that start with it: one gives that command, two or
\* more give -2, none gives -1.
C2_PrefixCount ==
    (t_pc = "returned" /\ t_arg # <<>> /\ ExactMatches = {}) =>
        /\ Cardinality(Candidates) = 1 =>
               t_res = [ret |-> 0, cmd |-> CHOOSE i \in Candidates : TRUE]
        /\ Cardinality(Candidates) >= 2 => t_res = [ret |-> -2, cmd |-> 0]
        /\ Candidates = {} => t_res = [ret |-> -1, cmd |-> 0]

\* Two names share the token as a strict prefix, a third does not.
C2_Witness ==
    /\ t_pc = "returned"
    /\ t_arg # <<>>
    /\ ExactMatches = {}
    /\ Candidates = {1, 3}
    /\ t_res.ret = -2

\* C3: the empty token is not found (-1) in any group.
C3_EmptyTokenNotFound ==
    (t_pc = "returned" /\ t_arg = <<>>) => t_res.ret = -1

(***************************************************************************)
(* Properties of the dispatcher (under Spec).  The leading global options  *)
(* of a command line are described from the command line itself: the words *)
(* up to the first word that is neither an option nor the argument of a    *)
(* --format, and what getopt makes of each of them.                        *)
(***************************************************************************)
\* Does the option word take the next word as its argument?
TakesNext(w) ==
    /\ IsOption(w) /\ w[2] = "-" /\ w # a_dashdash
    /\ EqPos(w) > Len(w)
    /\ LET m == LongMatch(SubSeq(w, 3, Len(w))) IN
          m # 0 /\ long_options[m].has_arg

\* The C index of the first word after the leading global options.
RECURSIVE LeadEnd(_, _)
LeadEnd(av, k) ==
    IF k >= Len(av) \/ ~IsOption(av[k + 1]) THEN k
    ELSE IF av[k + 1] = a_dashdash THEN k + 1
    ELSE IF TakesNext(av[k + 1]) /\ k + 1 < Len(av) THEN LeadEnd(av, k + 2)
    ELSE LeadEnd(av, k + 1)

\* The program name and the leading global options.
Lead == SubSeq(argv, 1, LeadEnd(argv, 1))

\* What getopt returns for the leading options, one after the other.
RECURSIVE OptEvents(_, _)
OptEvents(av, optind) ==
    LET g == getopt_long(av, optind) IN
    IF g.c < 0 THEN <<>>
    ELSE <<g>> \o OptEvents(av, IF g.optind > optind THEN g.optind ELSE optind + 1)

LeadEvents == OptEvents(Lead, 1)

\* The output mode a format name stands for, CMD_OUTPUT_MAX for none.
Lower(v) == [k \in 1..Len(v) |-> tolower(v[k])]
ModeNamed(v) ==
    IF \E i \in 1..Len(cmd_outputs) : cmd_outputs[i] = Lower(v)
    THEN (CHOOSE i \in 1..Len(cmd_outputs) : cmd_outputs[i] = Lower(v)) - 1
    ELSE CMD_OUTPUT_MAX

IsUnknown(e) == e.c = OPT_UNKNOWN
IsInvalidFormat(e) == e.c = OPT_FORMAT /\ ModeNamed(e.optarg) = CMD_OUTPUT_MAX
IsFatal(e) == IsUnknown(e) \/ IsInvalidFormat(e)

\* The first leading option that ends the process, 0 when there is none.
FirstFatal ==
    LET ev == LeadEvents IN
    IF \E k \in 1..Len(ev) : IsFatal(ev[k])
    THEN CHOOSE k \in 1..Len(ev) : IsFatal(ev[k]) /\ \A j \in 1..(k - 1) : ~IsFatal(ev[j])
    ELSE 0

\* The mode of the last leading --format, text when there is none.
LastFormatMode ==
    LET ev == LeadEvents
        fs == {k \in 1..Len(ev) : ev[k].c = OPT_FORMAT}
    IN IF fs = {} THEN CMD_OUTPUT_TEXT
       ELSE ModeNamed(ev[CHOOSE k \in fs : \A j \in fs : j <= k].optarg)

\* The literal words handle_special_globals looks for, among the leading
\* global options.
LeadHas(w) == \E k \in 2..Len(Lead) : Lead[k] = w

\* The run is one of the btrfsck alias; the global options were parsed.
Alias == bname = s_btrfsck
Parsed == pc \notin {"start", "globals"} /\ ~Alias

\* The calls of leaf handlers made by main or handle_command_group.
Dispatched(k) == execs[k].leaf /\ execs[k].by \in {"main", "handle_command_group"}
SpecialOutput == {"help", "full_tree", "formats", "version"}
\* The global help and version handling has acted: handle_special_globals
\* ran a command, or printed the full command tree or the format list.
BySpecialGlobals ==
    \/ \E k \in 1..Len(execs) : execs[k].by = "handle_special_globals"
    \/ {"full_tree", "formats"} \cap out # {}

\* C4: main and handle_command_group invoke a leaf's handler only if the
\* command supports the requested output mode (the mode is the default, or
\* its bit is set in the command's format mask), whatever the number of
\* arguments that follow the leaf token.
C4_LeafOnlyIfSupported ==
    \A k \in 1..Len(execs) :
        Dispatched(k) =>
            \/ execs[k].output_mode = CMD_OUTPUT_TEXT
            \/ BitSet(execs[k].flags, execs[k].output_mode)

\* C5 as stated: on every path that ends main, btrfs_config_init and
\* btrfs_close_all_devices have each been invoked exactly once.
C5_BothOnceOnEveryPath ==
    pc = "exited" => (init_calls = 1 /\ close_calls = 1)

\* C5 amended: btrfs_config_init is invoked exactly once, before any
\* parsing or dispatch.  btrfs_close_all_devices is invoked exactly once
\* when the leaf handler dispatched by main or handle_command_group has
\* returned, after all dispatch and before exit(ret); on every path that
\* ends in exit() earlier it is not invoked.
LeafReturned == execs # <<>> /\ Dispatched(Len(execs))
C5_InitOnceTeardownOnReturn ==
    /\ pc = "start" =>
           (init_calls = 0 /\ resolved = <<>> /\ execs = <<>> /\ out = {}
            /\ output_mode = CMD_OUTPUT_TEXT)
    /\ pc # "start" => init_calls = 1
    /\ pc = "close" => LeafReturned
    /\ pc = "exit" => LeafReturned
    /\ close_calls = IF pc = "exit" \/ (pc = "exited" /\ LeafReturned) THEN 1 ELSE 0

\* A leaf reached through two nested groups has returned and main has
\* exited with its status after the teardown.
C5_Witness ==
    /\ pc = "exited"
    /\ Len(execs) = 3
    /\ LeafReturned
    /\ status = 1
    /\ init_calls = 1
    /\ close_calls = 1

\* C6 as stated: an unrecognized option among the leading global options
\* ends the process with status 129, with no token resolved, no help or
\* version output and no handler invoked.
C6_UnknownOptionExits129 ==
    (Parsed /\ \E k \in 1..Len(LeadEvents) : IsUnknown(LeadEvents[k])) =>
        /\ pc = "exited" /\ status = 129
        /\ resolved = <<>> /\ execs = <<>>
        /\ out \cap SpecialOutput = {}

\* C6 amended: when the first leading global option that is either
\* unrecognized or a --format naming no valid mode is an unrecognized one,
\* the process exits with status 129 during handle_global_options, with no
\* token resolved, no help or version output and no handler invoked, also
\* when --help or --version is among the leading options; when a --format
\* naming no valid mode comes first, the process exits with status 1
\* there, and again no token is resolved and no handler invoked.
C6_FirstFatalDecides ==
    (Parsed /\ FirstFatal # 0) =>
        /\ pc = "exited"
        /\ resolved = <<>> /\ execs = <<>>
        /\ IF IsUnknown(LeadEvents[FirstFatal])
           THEN status = 129 /\ out = {"unknown_option"}
           ELSE status = 1 /\ "invalid_format" \in out

\* --help precedes the unrecognized option.
C6_Witness ==
    /\ pc = "exited" /\ status = 129
    /\ FirstFatal = 2
    /\ LeadEvents[1].c = OPT_HELP
    /\ Lead[2] = a_help

\* C7 as stated: the mode after handle_global_options is that of the last
\* leading --format (any letter case); a leading --format that names no
\* valid mode sets the mode to text and ends the process with status 1
\* with no token resolved.
C7_InvalidFormatExits1 ==
    /\ (Parsed /\ FirstFatal = 0) => output_mode = LastFormatMode
    /\ (Parsed /\ \E k \in 1..Len(LeadEvents) : IsInvalidFormat(LeadEvents[k])) =>
           /\ pc = "exited" /\ status = 1
           /\ output_mode = CMD_OUTPUT_TEXT
           /\ resolved = <<>>

\* C7 amended: the same, for a --format naming no valid mode that no
\* unrecognized option precedes (an unrecognized option that comes first
\* ends the process with status 129 and leaves the mode as it was).
C7_LastFormatWins ==
    /\ (Parsed /\ FirstFatal = 0) =>
           /\ output_mode = LastFormatMode
           /\ out \cap {"invalid_format", "unknown_option"} = {}
    /\ (Parsed /\ FirstFatal # 0 /\ IsInvalidFormat(LeadEvents[FirstFatal])) =>
           /\ pc = "exited" /\ status = 1
           /\ output_mode = CMD_OUTPUT_TEXT
           /\ resolved = <<>> /\ execs = <<>>

\* --format=TEXT, then --format Json: the mode is json.
C7_Witness ==
    /\ pc = "special"
    /\ Len(LeadEvents) = 2
    /\ LeadEvents[1].c = OPT_FORMAT /\ ModeNamed(LeadEvents[1].optarg) = CMD_OUTPUT_TEXT
    /\ LeadEvents[2].c = OPT_FORMAT /\ LeadEvents[2].optarg = a_Json
    /\ output_mode = CMD_OUTPUT_JSON

\* C8: with --help among the leading global options, --version there or
\* not, handle_special_globals takes the help path (the full command tree
\* with --full, else the help command; then the format list) and never
\* executes the version command; with --version alone it executes the
\* version command; both exit with status 0 and resolve no token; with
\* neither it has no effect.
ByDispatcher(k) == execs[k].by \in {"main", "handle_command_group"}
C8_HelpBeforeVersion ==
    (Parsed /\ FirstFatal = 0 /\ pc # "special") =>
        IF LeadHas(a_help)
        THEN /\ pc = "exited" /\ status = 0 /\ resolved = <<>>
             /\ IF LeadHas(a_full)
                THEN out = {"full_tree", "formats"} /\ execs = <<>>
                ELSE /\ out = {"help", "formats"}
                     /\ Len(execs) = 1
                     /\ execs[1].token = s_help
                     /\ execs[1].by = "handle_special_globals"
        ELSE IF LeadHas(a_version)
        THEN /\ pc = "exited" /\ status = 0 /\ resolved = <<>>
             /\ out = {"version"}
             /\ Len(execs) = 1
             /\ execs[1].token = s_version
             /\ execs[1].by = "handle_special_globals"
        ELSE /\ ~BySpecialGlobals
             /\ \A k \in 1..Len(execs) : ByDispatcher(k)
             /\ pc = "shift" => (out = {} /\ execs = <<>> /\ resolved = <<>>)

\* --version comes before --help, and the help path is taken.
C8_Witness ==
    /\ pc = "exited" /\ status = 0
    /\ Len(Lead) = 3 /\ Lead[2] = a_version /\ Lead[3] = a_help
    /\ out = {"help", "formats"}

\* A command line whose first three command words resolve, in the top
\* group, the nested group and the group nested in it, to a group, a
\* subgroup and a leaf; the commands, and the words after the leaf token.
Tok(g, w) == parse_one_token(w, Tokens(Groups(g)))
First == resolved[1]
Cmd1 == Groups("btrfs")[Tok("btrfs", argv[First + 1]).cmd]
Cmd2 == Groups(Cmd1.next)[Tok(Cmd1.next, argv[First + 2]).cmd]
Cmd3 == Groups(Cmd2.next)[Tok(Cmd2.next, argv[First + 3]).cmd]
ThreeLevel ==
    /\ Len(resolved) >= 1
    /\ Len(argv) >= First + 3
    /\ Tok("btrfs", argv[First + 1]).ret = 0 /\ Cmd1.next # NoGroup
    /\ Tok(Cmd1.next, argv[First + 2]).ret = 0 /\ Cmd2.next # NoGroup
    /\ Tok(Cmd2.next, argv[First + 3]).ret = 0 /\ Cmd3.next = NoGroup
Rest == SubSeq(argv, First + 4, Len(argv))
Finished == pc \in {"close", "exit", "exited"}

\* Each level resolved one word, the next one, and the leaf handler got
\* the words after the leaf token, after its own name in argv[0].
LeafGotRest ==
    /\ resolved = <<First, First + 1, First + 2>>
    /\ Len(execs) = 3
    /\ \A k \in 1..3 : ByDispatcher(k) /\ execs[k].argc = Len(argv) - (First + k - 1)
    /\ ~execs[1].leaf /\ ~execs[2].leaf /\ execs[3].leaf
    /\ execs[3].token = Cmd3.token
    /\ execs[3].argv = <<Cmd3.token>> \o Rest

\* C9 as stated: for group -> subgroup -> leaf followed by any arguments,
\* each level resolves and consumes one token, the vector is shifted by one
\* per level, and the leaf handler is invoked exactly once with only the
\* arguments that follow the leaf token.
C9_LeafInvokedWithRest ==
    (ThreeLevel /\ pc = "exited") => LeafGotRest

\* C9 amended: the same, provided the first argument after the leaf token
\* is not --help and, when arguments follow, the leaf supports the
\* requested output mode; otherwise the three tokens are still resolved
\* one per level but the leaf handler is not invoked: the leaf's usage is
\* rendered and the process exits, with status 1 for the unsupported mode
\* and else 0.
Intercepted ==
    /\ Rest # <<>>
    /\ Rest[1] = a_help \/ ~cmd_provides_output_format(Cmd3, output_mode)
C9_LeafInvokedUnlessIntercepted ==
    (ThreeLevel /\ Finished) =>
        IF Intercepted
        THEN /\ resolved = <<First, First + 1, First + 2>>
             /\ Len(execs) = 2 /\ ~execs[1].leaf /\ ~execs[2].leaf
             /\ pc = "exited"
             /\ "usage_command" \in out
             /\ status = IF cmd_provides_output_format(Cmd3, output_mode) THEN 0 ELSE 1
        ELSE LeafGotRest

\* json was requested, filesystem balance status and two more words
\* followed: the handler of status got its name and the two words.
C9_Witness ==
    /\ ThreeLevel /\ pc = "exited"
    /\ output_mode = CMD_OUTPUT_JSON
    /\ Len(Rest) = 2
    /\ LeafGotRest
    /\ execs[3].argc = 3
    /\ execs[3].argv = <<s_status>> \o Rest

\* C10: the output mode is written only by the pass over the leading
\* global options: it is the mode of the last --format among them, a
\* --format, --help or --version after the first bare word neither changes
\* it nor triggers the global help or version, it does not change from the
\* return of handle_global_options to the exit, and under the btrfsck
\* alias it stays text.
C10_ModeWrittenOnlyByGlobalOptions ==
    /\ []((pc = "start" \/ Alias) => output_mode = CMD_OUTPUT_TEXT)
    /\ []((Parsed /\ FirstFatal = 0) => output_mode = LastFormatMode)
    /\ []((BySpecialGlobals \/ \E k \in 1..Len(execs) : ~ByDispatcher(k))
             => (FirstFatal # 0 \/ LeadHas(a_help) \/ LeadHas(a_version)))
    /\ [][pc # "globals" => output_mode' = output_mode]_vars

\* json was requested, three levels were resolved, and --help or --version
\* follows the leaf token.
C10_Witness ==
    /\ pc = "exited"
    /\ output_mode = CMD_OUTPUT_JSON
    /\ LeafReturned /\ Len(execs) = 3
    /\ \E k \in (Len(Lead) + 1)..Len(argv) : argv[k] \in {a_help, a_version}

====
